---- MODULE Spec2Model ----
(***************************************************************************)
(* Holder-resolution pipeline of programs/anchor-escrow/src/lib.rs:        *)
(* get_nftholders, get_cm_creator_accounts, get_holder_token_accounts,     *)
(* parse_token_amount and parse_owner.                                     *)
(*                                                                         *)
(* One run of get_nftholders is modelled.  The remote ledger is the        *)
(* environment: every call of get_program_accounts_with_config either      *)
(* fails (transport error) or returns some sequence of distinct accounts   *)
(* of a fixed finite ledger; the creator scan returns only accounts whose  *)
(* bytes match its Memcmp filter.                                          *)
(*                                                                         *)
(* Spec is the run step by step; FairSpec is Spec with progress; SpecFn    *)
(* is the run as a function of the answers of the ledger.                  *)
(***************************************************************************)
EXTENDS Integers, Sequences, FiniteSets, TLC

(***************************************************************************)
(* Bounds of the model.                                                    *)
(***************************************************************************)
\* largest creator-slot position given to a run
MaxPosition == 5
\* most accounts one creator scan returns
MaxAccounts == 2
\* most token accounts one holder scan returns
MaxCands == 2

(***************************************************************************)
(* Program constants.                                                      *)
(***************************************************************************)
\* lib.rs:142  if position > 4
MAX_CREATOR_POSITION == 4
\* lib.rs:75   Exponential::from_millis_with_factor(250, 2.0)
BACKOFF_BASE_MS == 250
BACKOFF_FACTOR == 2
\* lib.rs:75   .take(3): the delay iterator yields three delays
BACKOFF_TAKE == 3
\* lib.rs:113  if amount == 1
HOLDER_AMOUNT == 1
\* lib.rs:153, 155, 157  capacities of the name, uri and symbol strings of a
\* metadata record (constants of the token-metadata program)
MAX_NAME_LENGTH == 32
MAX_URI_LENGTH == 200
MAX_SYMBOL_LENGTH == 10

(***************************************************************************)
(* The ledger: metadata accounts (owned by the token-metadata program) and *)
(* token accounts (owned by the token program).  An account is named by    *)
(* its public key; its content is fixed.                                   *)
(***************************************************************************)
Creator(address, verified) == [address |-> address, verified |-> verified]

\* Metadata accounts.  decodes = try_from_slice_unchecked succeeds on the
\* account's bytes; creators = metadata.data.creators of the decoded record.
MetadataPubkeys ==
    {"Mgarbage", "Mempty", "Munverified", "Mverified", "Mverified2", "Mother"}

MetadataLedger(pk) ==
    CASE pk = "Mgarbage"    -> [decodes |-> FALSE, creators |-> <<>>]
      [] pk = "Mempty"      -> [decodes |-> TRUE,  creators |-> <<>>]
      [] pk = "Munverified" -> [decodes |-> TRUE,
                                creators |-> <<Creator("C", FALSE)>>]
      [] pk = "Mverified"   -> [decodes |-> TRUE,
                                creators |-> <<Creator("C", TRUE)>>]
      [] pk = "Mverified2"  -> [decodes |-> TRUE,
                                creators |-> <<Creator("C", TRUE),
                                               Creator("X", FALSE)>>]
      [] pk = "Mother"      -> [decodes |-> TRUE,
                                creators |-> <<Creator("X", TRUE),
                                               Creator("C", FALSE)>>]

\* The 32 bytes of account pk that start at byte `offset`, read as an
\* identity ("" when they are none).  A record written by the token-metadata
\* program pads its strings to their capacities, so the address of its
\* creator slot p starts at byte 326 + 34 * p.  Mgarbage is an account of
\* foreign layout whose bytes equal "C" wherever they are compared; Mempty
\* is a record of unpadded strings: it decodes with no creators and the
\* bytes where slot 0 of a padded record lies equal "C".
RawIdentityAt(pk, offset) ==
    CASE pk = "Mgarbage" -> "C"
      [] pk = "Mempty"   -> IF offset = 326 THEN "C" ELSE ""
      [] OTHER ->
            LET cs == MetadataLedger(pk).creators
                slots == {p \in 0..(Len(cs) - 1) : offset = 326 + 34 * p}
            IN  IF slots = {} THEN "" ELSE cs[(CHOOSE p \in slots : TRUE) + 1].address

\* metadata.mint of the record decoded from account pk: one mint per
\* metadata account (the metadata account is derived from its mint).
MintOf(pk) == <<"mint", pk>>

\* Token accounts.  parsable = parse_account_data succeeds; hasAmount =
\* info.tokenAmount.amount is present and parses as u64; hasOwner =
\* info.owner is present and a string.
TokenPubkeys == {"Tzero1", "Tzero2", "Tone1", "Tone2", "Ttwo",
                 "TnoData", "TnoAmount", "TnoOwner"}

TokenAcct(p, ha, a, ho, o) ==
    [parsable |-> p, hasAmount |-> ha, amount |-> a, hasOwner |-> ho, owner |-> o]

TokenLedger(pk) ==
    CASE pk = "Tzero1"    -> TokenAcct(TRUE, TRUE, 0, TRUE, "W0")
      [] pk = "Tzero2"    -> TokenAcct(TRUE, TRUE, 0, TRUE, "W1")
      [] pk = "Tone1"     -> TokenAcct(TRUE, TRUE, 1, TRUE, "W1")
      [] pk = "Tone2"     -> TokenAcct(TRUE, TRUE, 1, TRUE, "W2")
      [] pk = "Ttwo"      -> TokenAcct(TRUE, TRUE, 2, TRUE, "W3")
      [] pk = "TnoData"   -> TokenAcct(FALSE, FALSE, 0, FALSE, "")
      [] pk = "TnoAmount" -> TokenAcct(TRUE, FALSE, 0, TRUE, "W4")
      [] pk = "TnoOwner"  -> TokenAcct(TRUE, TRUE, 1, FALSE, "")

\* sequences of distinct elements of S, of length at most n: what one call
\* of get_program_accounts_with_config can return
RECURSIVE DistinctSeqs(_, _)
DistinctSeqs(S, n) ==
    IF n = 0 THEN {<<>>}
    ELSE {<<>>} \cup
         UNION {{<<x>> \o s : s \in DistinctSeqs(S \ {x}, n - 1)} : x \in S}

(***************************************************************************)
(* Pure functions.                                                         *)
(***************************************************************************)
\* mutation: the check is off by one and lets position 5 through
PositionOutOfRange_OffByOne(p) == p > MAX_CREATOR_POSITION + 1

\* lib.rs:142  the creator-slot check of get_cm_creator_accounts
PositionOutOfRange(p) == p > MAX_CREATOR_POSITION

\* mutation: the per-creator stride leaves out the verified and share bytes
CreatorFilterOffset_AddressStride(p) ==
    1 + 32 + 32 + 4 + MAX_NAME_LENGTH + 4 + MAX_URI_LENGTH
      + 4 + MAX_SYMBOL_LENGTH + 2 + 1 + 4 + p * 32

\* lib.rs:149-166  the offset of the Memcmp filter of the creator scan
CreatorFilterOffset(p) ==
    1 + 32 + 32 + 4 + MAX_NAME_LENGTH + 4 + MAX_URI_LENGTH
      + 4 + MAX_SYMBOL_LENGTH + 2 + 1 + 4 + p * (32 + 1 + 1)

\* lib.rs:148-169  the Memcmp filter: offset and the creator's identity
CreatorFilter(creator, p) ==
    [offset |-> CreatorFilterOffset(p), bytes |-> creator]

\* RpcFilterType::Memcmp as the ledger node applies it to a metadata account
Memcmp(filter, pk) == RawIdentityAt(pk, filter.offset) = filter.bytes

\* crate::parse::first_creator_is_verified (its body is not in lib.rs)
first_creator_is_verified(creators) ==
    Len(creators) > 0 /\ creators[1].verified

\* mutation: only the flag is tested, so an empty creator list passes
FailsVerification_FlagOnly(creators) ==
    Len(creators) > 0 /\ ~creators[1].verified

\* lib.rs:70  the condition under which a decoded record is dropped
FailsVerification(creators) == ~first_creator_is_verified(creators)

\* lib.rs:61  try_from_slice_unchecked(&account.data)
DecodeMetadata(pk) ==
    [ok       |-> MetadataLedger(pk).decodes,
     mint     |-> MintOf(pk),
     creators |-> MetadataLedger(pk).creators]

\* lib.rs:86-99  parse_account_data(&metadata.mint, &TOKEN_PROGRAM_ID, ...)
parse_account_data(pk) ==
    [ok |-> TokenLedger(pk).parsable, parsed |-> TokenLedger(pk)]

\* lib.rs:215-228
parse_token_amount(data) ==
    [ok |-> data.parsed.hasAmount, amount |-> data.parsed.amount]

\* lib.rs:230-241
parse_owner(data) ==
    [ok |-> data.parsed.hasOwner, owner |-> data.parsed.owner]

\* mutation: every non-zero balance counts as holding the NFT
IsCurrentHolder_NonZero(amount) == amount >= HOLDER_AMOUNT

\* lib.rs:113  Only include current holder of the NFT.
IsCurrentHolder(amount) == amount = HOLDER_AMOUNT

\* mutation: the token account's key is stored where the owner belongs
MakeHolder_WrongOwner(owner_wallet, associated_token_address, mint, metadata_pubkey) ==
    [owner_wallet             |-> associated_token_address,
     associated_token_address |-> associated_token_address,
     mint_account             |-> mint,
     metadata_account         |-> metadata_pubkey]

\* lib.rs:122-127
MakeHolder(owner_wallet, associated_token_address, mint, metadata_pubkey) ==
    [owner_wallet             |-> owner_wallet,
     associated_token_address |-> associated_token_address,
     mint_account             |-> mint,
     metadata_account         |-> metadata_pubkey]

\* mutation: a mint that already has a Holder gets no second one
PushHolder_OncePerMint(holders, holder) ==
    IF \E i \in 1..Len(holders) : holders[i].mint_account = holder.mint_account
    THEN holders
    ELSE Append(holders, holder)

\* mutation: the new Holder takes the place of the list
PushHolder_Overwrite(holders, holder) == <<holder>>

\* lib.rs:128  nft_holders.push(holder)
PushHolder(holders, holder) == Append(holders, holder)

\* mutation: the iterator yields one delay more
BackoffInit_OneMore == [current |-> BACKOFF_BASE_MS, remaining |-> BACKOFF_TAKE + 1]

\* lib.rs:75  Exponential::from_millis_with_factor(250, 2.0).take(3): an
\* iterator of delays; current is the next delay, remaining the number of
\* delays it still yields.
BackoffInit == [current |-> BACKOFF_BASE_MS, remaining |-> BACKOFF_TAKE]

\* mutation: the iterator never runs out of delays
BackoffNext_NeverRunsOut(it) ==
    [current |-> it.current * BACKOFF_FACTOR, remaining |-> it.remaining]

\* mutation: the delay is not multiplied
BackoffNext_FixedDelay(it) ==
    [current |-> it.current, remaining |-> it.remaining - 1]

\* Iterator::next of the delay iterator: the state after yielding current
BackoffNext(it) ==
    [current |-> it.current * BACKOFF_FACTOR, remaining |-> it.remaining - 1]

\* the outcomes of client.get_program_accounts_with_config (lib.rs:180, 210)
ScanOutcomes(pubkeys, n) ==
    {[ok |-> FALSE, accounts |-> <<>>]}
        \cup {[ok |-> TRUE, accounts |-> s] : s \in DistinctSeqs(pubkeys, n)}

\* the outcomes of get_holder_token_accounts (lib.rs:186-213): the filters
\* name the mint and the size of a token account; which token accounts the
\* ledger holds for the mint is the environment's choice
HolderScanOutcomes == ScanOutcomes(TokenPubkeys, MaxCands)

(***************************************************************************)
(* State.                                                                  *)
(***************************************************************************)
VARIABLES
    creator_ok,      \* input: Pubkey::from_str(&creator) succeeds
    position,        \* input: creator-slot position
    filter,          \* the Memcmp filter of the creator scan, once built
    pc,              \* where the run of get_nftholders is
    accounts,        \* result of the creator scan (metadata public keys)
    idx,             \* position of the outer loop in accounts
    backoff,         \* the delay iterator of the current retry
    current_try,     \* attempt number of the current retry
    token_accounts,  \* result of the holder scan of the current mint
    cidx,            \* position of the inner loop in token_accounts
    nft_holders,     \* the result list
    result,          \* how the run ended
    log,             \* error! messages
    creator_scans,   \* number of creator scans issued to the ledger
    scanned_mints,   \* the mints a holder scan was issued for
    answers,         \* SpecFn only: the scripted answers of the holder scans
    events           \* holder scans issued and delays slept for the current
                     \* account of the loop, in order

vars == <<creator_ok, position, filter, pc, accounts, idx, backoff, current_try,
          token_accounts, cidx, nft_holders, result, log, creator_scans,
          scanned_mints, answers, events>>

\* the creator identity the run is given, when it parses (lib.rs:52-53)
CreatorIdentity == "C"
\* no filter has been built yet
NoFilter == [offset |-> 0, bytes |-> ""]

Running == [kind |-> "running", holders |-> <<>>]
\* Ok(nft_holders), lib.rs:133
Ok(holders) == [kind |-> "Ok", holders |-> holders]
\* "Err": an error propagated by `?`; "Exit": std::process::exit(1);
\* "Panic": expect() on a creator that does not parse; "Return": a bare
\* `return;` inside the loop body, which leaves get_nftholders without a
\* Holder list.
Ended(kind) == [kind |-> kind, holders |-> <<>>]

ScanHolder(mint) == <<"scan", mint>>
Sleep(ms) == <<"sleep", ms>>

Init ==
    /\ creator_ok \in BOOLEAN
    /\ position \in 0..MaxPosition
    /\ filter = NoFilter
    /\ pc = "start"
    /\ accounts = <<>>
    /\ idx = 1
    /\ backoff = BackoffInit
    /\ current_try = 1
    /\ token_accounts = <<>>
    /\ cidx = 1
    /\ nft_holders = <<>>
    /\ result = Running
    /\ log = <<>>
    /\ creator_scans = 0
    /\ scanned_mints = {}
    /\ answers = <<>>
    /\ events = <<>>

\* mutation: the Holders pushed so far are returned
LoopReturn_Partial(holders) == Ok(holders)

\* what get_nftholders yields at a bare `return;` in the body of the loop
\* (lib.rs:65, 71, 81, 97, 108, 118): the Holders pushed so far are dropped
LoopReturn(holders) == Ended("Return")

\* a bare `return;` in the body of the loop
ReturnFromLoop ==
    /\ pc' = "done"
    /\ result' = LoopReturn(nft_holders)

\* mutation: a failed creator scan is issued a second time
PropagateCreatorScanError_RetryOnce ==
    IF creator_scans < 1
    THEN pc' = "scan" /\ UNCHANGED result
    ELSE pc' = "done" /\ result' = Ended("Err")

\* the `?` of lib.rs:180 and lib.rs:55: the transport error of the creator
\* scan is returned to the caller of get_nftholders
PropagateCreatorScanError ==
    /\ pc' = "done"
    /\ result' = Ended("Err")

(***************************************************************************)
(* Steps of get_nftholders.                                                *)
(***************************************************************************)
\* lib.rs:52-54
ParseCreator ==
    /\ pc = "start"
    /\ IF creator_ok
       THEN pc' = "scan" /\ UNCHANGED result
       ELSE pc' = "done" /\ result' = Ended("Panic")
    /\ UNCHANGED <<answers, creator_ok, position, filter, accounts, idx, backoff, current_try,
                   token_accounts, cidx, nft_holders, log, creator_scans,
                   scanned_mints, events>>

\* lib.rs:55, 137-183
get_cm_creator_accounts ==
    /\ pc = "scan"
    /\ IF PositionOutOfRange(position)
       THEN /\ log' = Append(log, <<"CM Creator position cannot be greator than 4", "">>)
            /\ pc' = "done"
            /\ result' = Ended("Exit")
            /\ UNCHANGED <<accounts, creator_scans, filter>>
       ELSE /\ filter' = CreatorFilter(CreatorIdentity, position)
            /\ creator_scans' = creator_scans + 1
            /\ \E r \in ScanOutcomes({pk \in MetadataPubkeys : Memcmp(filter', pk)},
                                     MaxAccounts) :
                 IF r.ok
                 THEN /\ accounts' = r.accounts
                      /\ pc' = "loop"
                      /\ UNCHANGED result
                 ELSE /\ PropagateCreatorScanError
                      /\ UNCHANGED accounts
            /\ UNCHANGED log
    /\ UNCHANGED <<answers, creator_ok, position, idx, backoff, current_try,
                   token_accounts, cidx, nft_holders, scanned_mints, events>>

\* lib.rs:59-67: the next account of the loop is decoded
DecodeAccount ==
    /\ pc = "loop"
    /\ idx <= Len(accounts)
    /\ IF DecodeMetadata(accounts[idx]).ok
       THEN /\ pc' = "verify"
            /\ UNCHANGED <<result, log>>
       ELSE /\ log' = Append(log, <<"has no metadata", accounts[idx]>>)
            /\ ReturnFromLoop
    /\ UNCHANGED <<answers, creator_ok, position, filter, accounts, idx, backoff, current_try,
                   token_accounts, cidx, nft_holders, creator_scans,
                   scanned_mints, events>>

\* lib.rs:69-72, and the construction of the delay iterator at lib.rs:75
CheckFirstCreator ==
    /\ pc = "verify"
    /\ IF FailsVerification(DecodeMetadata(accounts[idx]).creators)
       THEN /\ ReturnFromLoop
            /\ UNCHANGED <<backoff, current_try>>
       ELSE /\ pc' = "retry"
            /\ backoff' = BackoffInit
            /\ current_try' = 1
            /\ UNCHANGED result
    /\ UNCHANGED <<answers, creator_ok, position, filter, accounts, idx, token_accounts, cidx,
                   nft_holders, log, creator_scans, scanned_mints, events>>

\* lib.rs:74-83, 186-213: one iteration of retry(): the operation is called;
\* on Ok its value is returned; on Err the next delay of the iterator is
\* slept and the operation is tried again, and when the iterator has no
\* delay left the error is returned.
retry ==
    /\ pc = "retry"
    /\ LET mint == DecodeMetadata(accounts[idx]).mint IN
       \E r \in HolderScanOutcomes :
         IF r.ok
         THEN /\ token_accounts' = r.accounts
              /\ cidx' = 1
              /\ pc' = "candidates"
              \* retry() has returned: its iterator and counter are gone
              /\ backoff' = BackoffInit
              /\ current_try' = 1
              /\ events' = Append(events, ScanHolder(mint))
              /\ UNCHANGED <<result, log>>
         ELSE IF backoff.remaining > 0
              THEN /\ events' = events \o <<ScanHolder(mint), Sleep(backoff.current)>>
                   /\ backoff' = BackoffNext(backoff)
                   /\ current_try' = current_try + 1
                   /\ UNCHANGED <<pc, token_accounts, cidx, result, log>>
              ELSE /\ events' = Append(events, ScanHolder(mint))
                   /\ log' = Append(log, <<"has no token accounts", accounts[idx]>>)
                   /\ ReturnFromLoop
                   /\ UNCHANGED <<backoff, current_try, token_accounts, cidx>>
    /\ scanned_mints' = scanned_mints \cup {DecodeMetadata(accounts[idx]).mint}
    /\ UNCHANGED <<answers, creator_ok, position, filter, accounts, idx, nft_holders,
                   creator_scans>>

\* lib.rs:85-130: the body of the inner loop for one token account
ProcessCandidate ==
    /\ pc = "candidates"
    /\ cidx <= Len(token_accounts)
    /\ LET associated_token_address == token_accounts[cidx]
           metadata_pubkey == accounts[idx]
           mint == DecodeMetadata(metadata_pubkey).mint
           data == parse_account_data(associated_token_address)
           amount == parse_token_amount(data)
           owner_wallet == parse_owner(data)
       IN  IF ~data.ok
           THEN /\ log' = Append(log, <<"has no data", associated_token_address>>)
                /\ ReturnFromLoop
                /\ UNCHANGED <<cidx, nft_holders>>
           ELSE IF ~amount.ok
           THEN /\ log' = Append(log, <<"has no amount", associated_token_address>>)
                /\ ReturnFromLoop
                /\ UNCHANGED <<cidx, nft_holders>>
           ELSE IF ~IsCurrentHolder(amount.amount)
           THEN /\ cidx' = cidx + 1
                /\ UNCHANGED <<pc, result, log, nft_holders>>
           ELSE IF ~owner_wallet.ok
           THEN /\ log' = Append(log, <<"has no owner", associated_token_address>>)
                /\ ReturnFromLoop
                /\ UNCHANGED <<cidx, nft_holders>>
           ELSE /\ nft_holders' =
                      PushHolder(nft_holders,
                                 MakeHolder(owner_wallet.owner,
                                            associated_token_address,
                                            mint, metadata_pubkey))
                /\ cidx' = cidx + 1
                /\ UNCHANGED <<pc, result, log>>
    /\ UNCHANGED <<answers, creator_ok, position, filter, accounts, idx, backoff, current_try,
                   token_accounts, creator_scans, scanned_mints, events>>

\* mutation: when the inner loop is exhausted the mint is scanned again
NextAccount_ScanAgain ==
    /\ pc = "candidates"
    /\ cidx > Len(token_accounts)
    /\ pc' = "retry"
    /\ token_accounts' = <<>>
    /\ cidx' = 1
    /\ UNCHANGED <<answers, creator_ok, position, filter, accounts, idx, backoff,
                   current_try, nft_holders, result, log, creator_scans,
                   scanned_mints, events>>

\* lib.rs:130-131, 59: the inner loop is exhausted; the outer loop advances
NextAccount ==
    /\ pc = "candidates"
    /\ cidx > Len(token_accounts)
    /\ idx' = idx + 1
    /\ pc' = "loop"
    /\ token_accounts' = <<>>
    /\ cidx' = 1
    /\ events' = <<>>
    /\ UNCHANGED <<answers, creator_ok, position, filter, accounts, backoff, current_try,
                   nft_holders, result, log, creator_scans, scanned_mints>>

\* lib.rs:133
ReturnOk ==
    /\ pc = "loop"
    /\ idx > Len(accounts)
    /\ pc' = "done"
    /\ result' = Ok(nft_holders)
    /\ UNCHANGED <<answers, creator_ok, position, filter, accounts, idx, backoff, current_try,
                   token_accounts, cidx, nft_holders, log, creator_scans,
                   scanned_mints, events>>

Next ==
    \/ ParseCreator
    \/ get_cm_creator_accounts
    \/ DecodeAccount
    \/ CheckFirstCreator
    \/ retry
    \/ ProcessCandidate
    \/ NextAccount
    \/ ReturnOk

Spec == Init /\ [][Next]_vars

(***************************************************************************)
(* Observations used by the properties.                                    *)
(***************************************************************************)
\* the Holders of one mint, in the order they were pushed
HoldersFor(holders, mint) ==
    SelectSeq(holders, LAMBDA h : h.mint_account = mint)

\* the loop is at an account (it has not run past the end of accounts)
AtAccount == idx <= Len(accounts)

\* the holder scans issued by the call of retry() in progress
ScanEvents == {i \in 1..Len(events) : events[i][1] = "scan"}
NumScans == Cardinality(ScanEvents)

Logged(msg) == \E i \in 1..Len(log) : log[i][1] = msg

\* all attempts of the holder scan of the current mint failed (lib.rs:80)
GaveUp == Logged("has no token accounts")
\* the bytes of the current account did not decode (lib.rs:64)
DecodeFailed == Logged("has no metadata")
\* the current candidate did not parse (lib.rs:96, 104, 117)
CandidateFailed ==
    Logged("has no data") \/ Logged("has no amount") \/ Logged("has no owner")

\* a well-formed token account and its balance, as the ledger holds them
WellFormed(pk) ==
    /\ TokenLedger(pk).parsable
    /\ TokenLedger(pk).hasAmount
    /\ TokenLedger(pk).hasOwner
BalanceIs(pk, n) == WellFormed(pk) /\ TokenLedger(pk).amount = n

\* the inner loop has examined every candidate of the current mint
MintCompleted == pc = "candidates" /\ cidx > Len(token_accounts)

\* a step changes the Holders of a mint only while the loop examines a
\* candidate of that mint, and the list returned is the result list
OtherMintsKept ==
    /\ \A pk \in MetadataPubkeys :
         HoldersFor(nft_holders', MintOf(pk)) # HoldersFor(nft_holders, MintOf(pk))
            => /\ pc = "candidates"
               /\ cidx <= Len(token_accounts)
               /\ accounts[idx] = pk
               /\ idx' = idx
    /\ idx' >= idx
    /\ result'.kind = "Ok" => result'.holders = nft_holders'

(***************************************************************************)
(* C1.  For every creator-slot position p > 4 the run fails with a         *)
(* configuration error before any ledger query: no creator scan and no     *)
(* holder scan is issued and no Holder is emitted.  (A creator identity    *)
(* that does not parse stops the run even earlier, at lib.rs:53.)          *)
(***************************************************************************)
C1_OutOfRangeFailsBeforeQuery ==
    position > 4 =>
        /\ creator_scans = 0
        /\ scanned_mints = {}
        /\ events = <<>>
        /\ accounts = <<>>
        /\ nft_holders = <<>>
        /\ pc \in {"start", "scan", "done"}
        /\ pc = "done" => result.kind \in {"Exit", "Panic"}
        /\ (pc = "done" /\ creator_ok) =>
              /\ result.kind = "Exit"
              /\ Logged("CM Creator position cannot be greator than 4")

C1_Witness ==
    position > 4 /\ creator_ok /\ pc = "done" /\ result.kind = "Exit"

(***************************************************************************)
(* C2.  A metadata record returned by the creator scan whose creator list  *)
(* is empty or whose first creator is not verified is excluded from holder *)
(* resolution: no holder scan is issued for its mint and no Holder names   *)
(* it as metadata account.                                                 *)
(***************************************************************************)
Unverified(pk) ==
    /\ MetadataLedger(pk).decodes
    /\ \/ Len(MetadataLedger(pk).creators) = 0
       \/ ~MetadataLedger(pk).creators[1].verified

C2_UnverifiedExcluded ==
    \A i \in 1..Len(accounts) :
        Unverified(accounts[i]) =>
            /\ MintOf(accounts[i]) \notin scanned_mints
            /\ \A j \in 1..Len(events) :
                 events[j][1] = "scan" => events[j][2] # MintOf(accounts[i])
            /\ \A j \in 1..Len(nft_holders) :
                 /\ nft_holders[j].metadata_account # accounts[i]
                 /\ nft_holders[j].mint_account # MintOf(accounts[i])
            /\ \A j \in 1..Len(result.holders) :
                 result.holders[j].metadata_account # accounts[i]

\* the verification step has rejected the second record of a scan whose
\* first record was resolved
C2_Witness ==
    /\ pc = "done"
    /\ result.kind = "Return"
    /\ idx = 2
    /\ AtAccount
    /\ Unverified(accounts[idx])
    /\ log = <<>>
    /\ scanned_mints # {}

C4_ScanContinuesAfterGiveUp ==
    (GaveUp /\ idx < Len(accounts)) => pc # "done"

(***************************************************************************)
(* C5.  As claimed: when the bytes of one account of the creator scan do   *)
(* not decode, only that account is skipped; the accounts after it are     *)
(* still processed, so the run does not end at that account while accounts *)
(* remain.                                                                 *)
(***************************************************************************)
C5_ScanContinuesAfterDecodeError ==
    (DecodeFailed /\ idx < Len(accounts)) => pc # "done"

(***************************************************************************)
(* C6.  As claimed: when one candidate token account does not parse, only  *)
(* that candidate is skipped; a later candidate of the same mint with      *)
(* balance 1 still yields a Holder, so the run does not end with such a    *)
(* candidate left without its Holder.                                      *)
(***************************************************************************)
C6_LaterCandidatesExamined ==
    (CandidateFailed /\ pc = "done") =>
        \A k \in (cidx + 1)..Len(token_accounts) :
            BalanceIs(token_accounts[k], 1) =>
                \E j \in 1..Len(nft_holders) :
                    /\ nft_holders[j].associated_token_address = token_accounts[k]
                    /\ nft_holders[j].mint_account = MintOf(accounts[idx])

(***************************************************************************)
(* C7.  For a verified mint whose holder scan returns exactly one token    *)
(* account of balance 1 and otherwise only accounts of balance 0, in any   *)
(* order, the result list holds exactly one Holder of that mint, with the  *)
(* owner and the key of the balance-1 account; later steps leave it so.    *)
(***************************************************************************)
OneHolderAmongZeros(j) ==
    /\ BalanceIs(token_accounts[j], 1)
    /\ \A k \in 1..Len(token_accounts) :
         k # j => BalanceIs(token_accounts[k], 0)

C7_AtCompletion ==
    MintCompleted =>
        \A j \in 1..Len(token_accounts) :
            OneHolderAmongZeros(j) =>
                LET hs == HoldersFor(nft_holders, MintOf(accounts[idx])) IN
                /\ Len(hs) = 1
                /\ hs[1].owner_wallet = TokenLedger(token_accounts[j]).owner
                /\ hs[1].associated_token_address = token_accounts[j]
                /\ hs[1].metadata_account = accounts[idx]

C8_NoHolderWithoutBalanceOne ==
    /\ \A j \in 1..Len(nft_holders) :
         /\ TokenLedger(nft_holders[j].associated_token_address).hasAmount
         /\ TokenLedger(nft_holders[j].associated_token_address).amount = 1
    /\ (pc = "candidates" /\ \A k \in 1..Len(token_accounts) :
                                 ~BalanceIs(token_accounts[k], 1))
          => HoldersFor(nft_holders, MintOf(accounts[idx])) = <<>>

\* a mint whose accounts have balances 0 and 2 has been examined
C8_Witness ==
    /\ MintCompleted
    /\ Len(token_accounts) = 2
    /\ \E k \in 1..2 : BalanceIs(token_accounts[k], 2)
    /\ \E k \in 1..2 : BalanceIs(token_accounts[k], 0)
    /\ nft_holders = <<>>

(***************************************************************************)
(* C9.  For a verified mint with k >= 2 successfully parsed token accounts *)
(* of balance 1, the result list holds exactly k Holders of that mint, one *)
(* per qualifying account in the order examined, each with that account's  *)
(* own owner and key.                                                      *)
(***************************************************************************)
\* the candidates examined so far that parsed with balance 1
Qualifying ==
    SelectSeq(SubSeq(token_accounts, 1, cidx - 1),
              LAMBDA pk : BalanceIs(pk, 1))

C9_AtMint ==
    (pc \in {"candidates", "done"} /\ AtAccount /\ Len(Qualifying) >= 2) =>
        LET hs == HoldersFor(nft_holders, MintOf(accounts[idx])) IN
        /\ Len(hs) = Len(Qualifying)
        /\ \A j \in 1..Len(hs) :
             /\ hs[j].associated_token_address = Qualifying[j]
             /\ hs[j].owner_wallet = TokenLedger(Qualifying[j]).owner
             /\ hs[j].metadata_account = accounts[idx]

C10_CreatorScanOnce ==
    /\ creator_scans <= 1
    /\ pc \in {"start", "scan"} => creator_scans = 0
    /\ pc \in {"loop", "verify", "retry", "candidates"} => creator_scans = 1
    /\ result.kind \in {"Ok", "Return", "Err"} => creator_scans = 1
    /\ result.kind = "Err" =>
          /\ pc = "done"
          /\ accounts = <<>>
          /\ scanned_mints = {}
          /\ events = <<>>
          /\ nft_holders = <<>>
          /\ result.holders = <<>>

C10_Witness == result.kind = "Err" /\ creator_scans = 1 /\ pc = "done"

(***************************************************************************)
(* get_nftholders as a function of what the ledger answers.  The creator   *)
(* scan has returned accts; a holder scan of the mint of record pk fails   *)
(* ans[pk].failures times and then returns ans[pk].accounts.               *)
(***************************************************************************)
\* lib.rs:74-77  retry(): does the operation succeed before the delays of
\* the iterator run out, when its first `failures` calls fail
RECURSIVE RetrySucceeds(_, _)
RetrySucceeds(it, failures) ==
    IF failures = 0 THEN TRUE
    ELSE IF it.remaining > 0 THEN RetrySucceeds(BackoffNext(it), failures - 1)
    ELSE FALSE

\* lib.rs:85-130  the inner loop from candidate k on; returned = a bare
\* `return;` was executed
RECURSIVE InnerLoop(_, _, _, _)
InnerLoop(cands, k, metadata_pubkey, holders) ==
    IF k > Len(cands) THEN [returned |-> FALSE, holders |-> holders]
    ELSE LET data == parse_account_data(cands[k])
             amount == parse_token_amount(data)
             owner_wallet == parse_owner(data)
         IN  IF ~data.ok \/ ~amount.ok
             THEN [returned |-> TRUE, holders |-> holders]
             ELSE IF ~IsCurrentHolder(amount.amount)
             THEN InnerLoop(cands, k + 1, metadata_pubkey, holders)
             ELSE IF ~owner_wallet.ok
             THEN [returned |-> TRUE, holders |-> holders]
             ELSE InnerLoop(cands, k + 1, metadata_pubkey,
                            PushHolder(holders,
                                       MakeHolder(owner_wallet.owner, cands[k],
                                                  DecodeMetadata(metadata_pubkey).mint,
                                                  metadata_pubkey)))

\* lib.rs:59-133  the outer loop from account i on
RECURSIVE OuterLoop(_, _, _, _)
OuterLoop(accts, i, ans, holders) ==
    IF i > Len(accts) THEN Ok(holders)
    ELSE LET metadata == DecodeMetadata(accts[i]) IN
         IF ~metadata.ok THEN LoopReturn(holders)
         ELSE IF FailsVerification(metadata.creators) THEN LoopReturn(holders)
         ELSE IF ~RetrySucceeds(BackoffInit, ans[accts[i]].failures)
         THEN LoopReturn(holders)
         ELSE LET inner == InnerLoop(ans[accts[i]].accounts, 1, accts[i], holders)
              IN  IF inner.returned THEN LoopReturn(holders)
                  ELSE OuterLoop(accts, i + 1, ans, inner.holders)

\* lib.rs:57-133  get_nftholders once the creator scan has returned accts
GetNftHoldersFn(accts, ans) == OuterLoop(accts, 1, ans, <<>>)

\* the token accounts and the failure counts the answers are drawn from
FnTokenPubkeys == {"Tzero1", "Tone1", "Tone2", "TnoData"}
FnFailures == {0, BACKOFF_TAKE, BACKOFF_TAKE + 1}

\* what the holder scans of one mint answer: the number of failed calls and
\* the accounts of the first successful one (none when retry() gives up
\* before any call succeeds)
FnAnswers ==
    {[failures |-> f, accounts |-> s] :
        f \in {g \in FnFailures : RetrySucceeds(BackoffInit, g)},
        s \in DistinctSeqs(FnTokenPubkeys, MaxCands)}
    \cup {[failures |-> f, accounts |-> <<>>] :
             f \in {g \in FnFailures : ~RetrySucceeds(BackoffInit, g)}}

\* the records of s that pass decoding and verification: the ones a holder
\* scan is issued for
Resolvable(s) ==
    {s[i] : i \in {j \in 1..Len(s) :
                     /\ DecodeMetadata(s[j]).ok
                     /\ ~FailsVerification(DecodeMetadata(s[j]).creators)}}

InitFn ==
    /\ creator_ok = TRUE
    /\ position = 0
    /\ filter = CreatorFilter(CreatorIdentity, position)
    /\ pc = "fn"
    /\ accounts \in DistinctSeqs({pk \in MetadataPubkeys : Memcmp(filter, pk)},
                                 MaxAccounts)
    /\ answers \in [Resolvable(accounts) -> FnAnswers]
    /\ idx = 1
    /\ backoff = BackoffInit
    /\ current_try = 1
    /\ token_accounts = <<>>
    /\ cidx = 1
    /\ nft_holders = <<>>
    /\ result = Running
    /\ log = <<>>
    /\ creator_scans = 1
    /\ scanned_mints = {}
    /\ events = <<>>

\* the function is applied to the inputs
ApplyFn ==
    /\ pc = "fn"
    /\ result' = GetNftHoldersFn(accounts, answers)
    /\ pc' = "done"
    /\ UNCHANGED <<answers, creator_ok, position, filter, accounts, idx,
                   backoff, current_try, token_accounts, cidx, nft_holders,
                   log, creator_scans, scanned_mints, events>>

NextFn == ApplyFn

SpecFn == InitFn /\ [][NextFn]_vars

(***************************************************************************)
(* C11.  As claimed: for any answers of the ledger, the run returns a      *)
(* Holder list that is exactly the reference result: one Holder for each   *)
(* pair (r, a) of a record r of the creator scan that decodes and passes   *)
(* first-creator verification and whose holder scan succeeds before the    *)
(* retries run out, and a token account a that scan returned and that      *)
(* parses with balance 1; nothing else.                                    *)
(***************************************************************************)
\* the reference result, from the ledger's content alone
ReferenceHolders(accts, ans) ==
    {[owner_wallet             |-> TokenLedger(a).owner,
      associated_token_address |-> a,
      mint_account             |-> MintOf(pk),
      metadata_account         |-> pk] :
        <<pk, a>> \in
          {pa \in MetadataPubkeys \X TokenPubkeys :
             /\ \E i \in 1..Len(accts) : accts[i] = pa[1]
             /\ MetadataLedger(pa[1]).decodes
             /\ Len(MetadataLedger(pa[1]).creators) > 0
             /\ MetadataLedger(pa[1]).creators[1].verified
             /\ ans[pa[1]].failures <= BACKOFF_TAKE
             /\ \E k \in 1..Len(ans[pa[1]].accounts) : ans[pa[1]].accounts[k] = pa[2]
             /\ BalanceIs(pa[2], 1)}}

HolderSet(holders) == {holders[i] : i \in 1..Len(holders)}

C11_ReturnsReference ==
    pc = "done" =>
        /\ result.kind = "Ok"
        /\ HolderSet(result.holders) = ReferenceHolders(accounts, answers)
        /\ Len(result.holders) = Cardinality(ReferenceHolders(accounts, answers))

\* the part of C11 that holds: a run that returns a list returns the
\* reference result
OkRunsReturnReference ==
    (pc = "done" /\ result.kind = "Ok") =>
        /\ HolderSet(result.holders) = ReferenceHolders(accounts, answers)
        /\ Len(result.holders) = Cardinality(ReferenceHolders(accounts, answers))

(***************************************************************************)
(* C12.  As claimed: whatever slot position (0 to 4) the creator filter    *)
(* was built for, a record of the creator scan in which the filtered       *)
(* creator identity is claimed only by a non-first creator slot is never   *)
(* accepted: no holder scan is issued for its mint and no Holder names it. *)
(***************************************************************************)
\* the record decodes, its first creator is not the filtered identity, and
\* a later creator slot holds the filtered identity
ClaimedByNonFirstSlotOnly(pk) ==
    LET cs == MetadataLedger(pk).creators IN
    /\ MetadataLedger(pk).decodes
    /\ Len(cs) > 1
    /\ cs[1].address # filter.bytes
    /\ \E s \in 2..Len(cs) : cs[s].address = filter.bytes

C12_NonFirstClaimRejected ==
    \A i \in 1..Len(accounts) :
        ClaimedByNonFirstSlotOnly(accounts[i]) =>
            /\ MintOf(accounts[i]) \notin scanned_mints
            /\ \A j \in 1..Len(nft_holders) :
                 nft_holders[j].metadata_account # accounts[i]

(***************************************************************************)
(* C13.  In the retry sequence of one mint no delay is slept before the    *)
(* first attempt; every failed attempt that is retried is followed by one  *)
(* delay, and the delay before retry n is 250 * 2^(n-1) ms (250, 500,      *)
(* 1000); no delay is slept after the attempt that ends the sequence, be   *)
(* it a success or the last permitted attempt.                             *)
(***************************************************************************)
C13_BackoffDelays ==
    /\ \A i \in 1..Len(events) :
         IF i % 2 = 1
         THEN events[i] = ScanHolder(MintOf(accounts[idx]))
         ELSE events[i] = Sleep(250 * 2 ^ ((i \div 2) - 1))
    /\ Len(events) <= 2 * 3 + 1
    /\ (events # <<>> /\ pc = "retry") => events[Len(events)][1] = "sleep"
    /\ (events # <<>> /\ pc # "retry") => events[Len(events)][1] = "scan"
    /\ pc = "candidates" => events # <<>>

\* the resolver has given up after sleeping 250, 500 and 1000 ms
C13_Witness ==
    /\ GaveUp
    /\ LET mint == MintOf(accounts[idx]) IN
       events = <<ScanHolder(mint), Sleep(250), ScanHolder(mint), Sleep(500),
                  ScanHolder(mint), Sleep(1000), ScanHolder(mint)>>

(***************************************************************************)
(* C14.  For fixed ledger content and a fixed failure pattern per account  *)
(* and per mint, the way the run ends and the set of Holders it returns do *)
(* not depend on the order of the accounts the creator scan returned, nor  *)
(* on the order of the token accounts a holder scan returned.  (Every      *)
(* order is itself an input of SpecFn, so reordering the accounts and      *)
(* reordering the candidates of one mint at a time reach every             *)
(* permutation.)                                                           *)
(***************************************************************************)
Reorderings(s) ==
    {t \in DistinctSeqs({s[i] : i \in 1..Len(s)}, Len(s)) : Len(t) = Len(s)}

Outcome(r) == [kind |-> r.kind, holders |-> HolderSet(r.holders)]

C14_OrderIndependent ==
    pc = "done" =>
        /\ \A accts \in Reorderings(accounts) :
             Outcome(GetNftHoldersFn(accts, answers)) = Outcome(result)
        /\ \A pk \in DOMAIN answers :
             \A cands \in Reorderings(answers[pk].accounts) :
                Outcome(GetNftHoldersFn(accounts,
                                        [answers EXCEPT ![pk].accounts = cands]))
                    = Outcome(result)

\* two mints were resolved, one of them with two Holders
C14_Witness ==
    /\ pc = "done"
    /\ result.kind = "Ok"
    /\ Len(accounts) = 2
    /\ Len(result.holders) = 3
    /\ result.holders[1].mint_account # result.holders[3].mint_account

(***************************************************************************)
(* C15.  As claimed: the retry sequence of each mint is independent.  The  *)
(* attempt counter and the backoff start afresh for every mint, whatever   *)
(* failed on the mints before it, and a mint whose retries ran out never   *)
(* cancels the resolution of another mint: a later record of the creator   *)
(* scan that decodes and is verified is still resolved, so the run does    *)
(* not end while such a record is left.                                    *)
(***************************************************************************)
\* the retry of a mint starts with the first attempt, the full iterator of
\* delays and no event of an earlier mint
FreshRetryPerMint ==
    /\ (pc = "retry" /\ events = <<>>) =>
          /\ current_try = 1
          /\ backoff = [current |-> 250, remaining |-> 3]
    /\ \A i \in 1..Len(events) :
          events[i][1] = "scan" => events[i][2] = MintOf(accounts[idx])
    /\ (Len(events) >= 2) => events[2] = Sleep(250)

\* a record after the current one that would be resolved
ResolvableLater ==
    \E j \in (idx + 1)..Len(accounts) :
        /\ MetadataLedger(accounts[j]).decodes
        /\ ~FailsVerification(MetadataLedger(accounts[j]).creators)

C15_RetriesIndependent ==
    /\ FreshRetryPerMint
    /\ (GaveUp /\ ResolvableLater) => pc # "done"

(***************************************************************************)
(* C16.  When a holder scan succeeds on attempt n >= 1 the retry ends at   *)
(* once: that scan is the last event of the mint, no delay follows it and  *)
(* no further holder scan is issued for the mint; the inner loop runs over *)
(* exactly the list that attempt returned: the list is not changed while   *)
(* it is examined, the candidates are examined one by one from the first,  *)
(* and the loop goes on to the next record only after the last candidate.  *)
(***************************************************************************)
\* while candidates are examined the last event is the successful scan
SuccessfulScanIsLast ==
    pc = "candidates" =>
        /\ events # <<>>
        /\ events[Len(events)] = ScanHolder(MintOf(accounts[idx]))
        /\ MintOf(accounts[idx]) \in scanned_mints
        /\ cidx <= Len(token_accounts) + 1

RetryEndsAtSuccess ==
    /\ (pc = "retry" /\ pc' = "candidates") =>
          /\ events' = Append(events, ScanHolder(MintOf(accounts[idx])))
          /\ cidx' = 1
          /\ idx' = idx
    /\ pc = "candidates" =>
          /\ pc' \in {"candidates", "loop", "done"}
          /\ scanned_mints' = scanned_mints
          /\ pc' # "loop" => events' = events
    /\ (pc = "candidates" /\ pc' = "candidates") =>
          /\ token_accounts' = token_accounts
          /\ cidx' = cidx + 1
          /\ idx' = idx
    /\ (pc = "candidates" /\ pc' = "loop") =>
          /\ cidx > Len(token_accounts)
          /\ idx' = idx + 1
    /\ (pc = "retry" /\ events = <<>>) => MintOf(accounts[idx]) \notin scanned_mints
    /\ Len(nft_holders') > Len(nft_holders) =>
          /\ pc = "candidates"
          /\ nft_holders'[Len(nft_holders')].associated_token_address
                = token_accounts[cidx]

FairSpec == Spec /\ WF_vars(Next)

(***************************************************************************)
(* C17.  Every run terminates, after a bounded number of ledger calls: at  *)
(* most one creator scan and, for each account the creator scan returned,  *)
(* at most 4 holder scans; holder scans are issued only for accounts the   *)
(* loop has reached.                                                       *)
(***************************************************************************)
BoundedLedgerCalls ==
    /\ creator_scans <= 1
    /\ NumScans <= 4
    /\ Cardinality(scanned_mints) <= Len(accounts)
    /\ \A i \in 1..Len(accounts) :
          MintOf(accounts[i]) \in scanned_mints => i <= idx

C17_Terminates == [](BoundedLedgerCalls) /\ <>(pc = "done")

\* a run that made the most ledger calls one record allows has ended
C17_Witness ==
    /\ pc = "done"
    /\ creator_scans = 1
    /\ NumScans = 4
    /\ Cardinality(scanned_mints) = 2

(***************************************************************************)
(* C18.  The result list is append-only and well-formed in every reachable *)
(* state: a step leaves the list as it is or appends one Holder; every     *)
(* Holder names a metadata account of the creator scan that the loop has   *)
(* reached, that decoded and passed first-creator verification, the mint   *)
(* of that record, and a token account that parsed with balance exactly 1  *)
(* and its owner; a Holder is appended only for the candidate under        *)
(* examination, an element of the list the successful holder scan of that  *)
(* mint returned.                                                          *)
(***************************************************************************)
WellFormedHolder(h) ==
    /\ \E i \in 1..Len(accounts) :
          /\ i <= idx
          /\ accounts[i] = h.metadata_account
    /\ MetadataLedger(h.metadata_account).decodes
    /\ Len(MetadataLedger(h.metadata_account).creators) > 0
    /\ MetadataLedger(h.metadata_account).creators[1].verified
    /\ h.mint_account = MintOf(h.metadata_account)
    /\ h.mint_account \in scanned_mints
    /\ BalanceIs(h.associated_token_address, 1)
    /\ h.owner_wallet = TokenLedger(h.associated_token_address).owner

ResultListWellFormed ==
    /\ \A j \in 1..Len(nft_holders) : WellFormedHolder(nft_holders[j])
    /\ result.kind = "Ok" => result.holders = nft_holders
    /\ result.kind # "Ok" => result.holders = <<>>

AppendOnly ==
    /\ Len(nft_holders') >= Len(nft_holders)
    /\ Len(nft_holders') <= Len(nft_holders) + 1
    /\ SubSeq(nft_holders', 1, Len(nft_holders)) = nft_holders
    /\ Len(nft_holders') = Len(nft_holders) + 1 =>
          LET h == nft_holders'[Len(nft_holders')] IN
          /\ pc = "candidates"
          /\ cidx <= Len(token_accounts)
          /\ events[Len(events)] = ScanHolder(h.mint_account)
          /\ h.associated_token_address = token_accounts[cidx]
          /\ h.metadata_account = accounts[idx]

C18_AppendOnlyWellFormed == [](ResultListWellFormed) /\ [][AppendOnly]_vars

\* a list of three Holders of two mints has been returned
C18_Witness ==
    /\ pc = "done"
    /\ result.kind = "Ok"
    /\ Len(result.holders) = 3
    /\ result.holders[1].mint_account # result.holders[3].mint_account

(***************************************************************************)
(* C19.  For every position p in 0..4 the offset of the creator filter is  *)
(* offset(0) + 34 * p, where offset(0) is the sum of the fixed prefix      *)
(* fields (key 1, update authority 32, mint 32, the three strings with a   *)
(* 4-byte length each, fee 2, creators flag 1, creators length 4); the     *)
(* offsets are strictly increasing in p, and the 32-byte windows compared  *)
(* for two different positions never overlap.                              *)
(***************************************************************************)
PrefixLength ==
    1 + 32 + 32 + (4 + MAX_NAME_LENGTH) + (4 + MAX_URI_LENGTH)
      + (4 + MAX_SYMBOL_LENGTH) + 2 + 1 + 4

C19_FilterOffsets ==
    filter # NoFilter =>
        /\ position \in 0..4
        /\ filter.offset = PrefixLength + 34 * position
        /\ \A q \in 0..4 :
             /\ q < position => CreatorFilterOffset(q) < filter.offset
             /\ q > position => CreatorFilterOffset(q) > filter.offset
             /\ q # position =>
                   \/ CreatorFilterOffset(q) + 32 <= filter.offset
                   \/ filter.offset + 32 <= CreatorFilterOffset(q)

\* the filter of the last slot has been built and the scan has returned
C19_Witness ==
    /\ position = 4
    /\ filter = [offset |-> 462, bytes |-> "C"]
    /\ pc = "loop"

====
